---- MODULE Spec2Model ----
(***************************************************************************)
(* Model of the section_testing crate (src/src/lib.rs): the thread-local   *)
(* Runner, the functions enable_sections_start, enable_sections_step and   *)
(* enter_section, the DropHandler destructor, and the driver loop that the *)
(* enable_sections! macro wraps around a test body.                        *)
(***************************************************************************)
EXTENDS Integers, Sequences, FiniteSets, TLC

\* ---------------------------------------------------------------- bounds
MaxThreads == 2   \* threads that own a CURRENT_RUNNER
MaxRuns    == 2   \* top-level test invocations per thread
MaxNest    == 1   \* depth of nested enable_sections! functions inside a pass
MaxWidth   == 2   \* sections per nesting level of a tree-shaped body
MaxDepth   == 2   \* nesting levels of a tree-shaped body
MaxFree    == 2   \* distinct sections of a body with arbitrary control flow
MaxQueries == 2   \* section! calls per pass of such a body
MaxChain   == 4   \* nesting levels of a body with one section per level

Threads == 1..MaxThreads

\* ---------------------------------------------------------------- data
\* struct Section {name, file, line}: equality is by the triple.
Section(name, file, line) == [name |-> name, file |-> file, line |-> line]

\* struct Entry {should_enter, index}
Entry(should_enter, index) == [should_enter |-> should_enter, index |-> index]

\* HashMap::new(): the map with no key
EmptyPath == [s \in {} |-> Entry(FALSE, 0)]

\* Runner::new()
RunnerNew ==
  [is_running |-> FALSE, queue |-> <<EmptyPath>>, current |-> EmptyPath, new |-> <<>>]

Range(seq) == {seq[i] : i \in 1..Len(seq)}

\* ---------------------------------------------------------------- bodies
\* The sections of tests/example.rs
SecPush    == Section("push", "tests/example.rs", 26)
SecInsert  == Section("insert", "tests/example.rs", 33)
SecReverse == Section("reverse", "tests/example.rs", 12)
SecPop     == Section("pop+remove+insert+push", "tests/example.rs", 17)

\* A tree-shaped body: every section of a level encloses w sections of the
\* next level, d levels deep.  A section is named by its line; the children
\* of the section at line n are at lines n*TreeBase+1 .. n*TreeBase+w.
TreeBase == MaxWidth + 1
TreeSec(n) == Section("s", "tree.rs", n)
RECURSIVE TreeLevel(_)
TreeLevel(n) == IF n = 0 THEN 0 ELSE 1 + TreeLevel(n \div TreeBase)
TreeKids(n, w, d) ==
  IF TreeLevel(n) < d THEN [i \in 1..w |-> TreeSec(n * TreeBase + i)] ELSE <<>>

\* A body over few sections with other control flow, given by the sequence
\* seq of the sections its section! calls name (a section may be named by
\* several calls, as in a loop) and the way the calls are chained:
\*   "seq"   section!(s1); section!(s2); ...
\*   "then"  if section!(s1) { if section!(s2) { ... } }
\*   "else"  if !section!(s1) { if !section!(s2) { ... } }
\* and the number of enable_sections! functions, each calling the next, that
\* the calls are wrapped in (nested).
FreeSecs == {Section("f", "free.rs", i) : i \in 1..MaxFree}
RECURSIVE SeqsUpTo(_, _)
SeqsUpTo(S, n) ==
  IF n = 0 THEN {<<>>}
  ELSE LET shorter == SeqsUpTo(S, n - 1)
       IN  shorter \cup {Append(q, x) : q \in {p \in shorter : Len(p) = n - 1}, x \in S}
Modes == {"seq", "then", "else"}

\* The body  if section!("a") { section!("c") } else { section!("b") }
SecA == Section("a", "branch.rs", 1)
SecB == Section("b", "branch.rs", 4)
SecC == Section("c", "branch.rs", 2)

\* exits: the body contains a panic site or a return statement
Bodies ==
  {[kind |-> "example", w |-> 0, d |-> 0, seq |-> <<>>, mode |-> "seq", nested |-> 0,
     exits |-> e] : e \in BOOLEAN}
  \cup {[kind |-> "tree", w |-> w, d |-> d, seq |-> <<>>, mode |-> "seq", nested |-> 0,
          exits |-> e] : w \in 0..MaxWidth, d \in 1..MaxDepth, e \in BOOLEAN}
  \cup {[kind |-> "tree", w |-> 1, d |-> d, seq |-> <<>>, mode |-> "seq", nested |-> 0,
          exits |-> e] : d \in 1..MaxChain, e \in BOOLEAN}
  \cup {[kind |-> "branch", w |-> 0, d |-> 0, seq |-> <<>>, mode |-> "seq", nested |-> 0,
          exits |-> e] : e \in BOOLEAN}
  \cup {[kind |-> "free", w |-> 0, d |-> 0, seq |-> q, mode |-> m, nested |-> n,
          exits |-> e] :
          q \in SeqsUpTo(FreeSecs, MaxQueries), m \in Modes, n \in 0..MaxNest,
          e \in BOOLEAN}

NoBody ==
  [kind |-> "tree", w |-> 0, d |-> 1, seq |-> <<>>, mode |-> "seq", nested |-> 0,
   exits |-> FALSE]

\* A section! call of a body: the section it names and, in a "free" body, its
\* position in seq
Call(s, k) == [op |-> "section", sec |-> s, at |-> k]
\* The call of a nested enable_sections! function, and the end of its body
CallFn  == [op |-> "call", sec |-> Section("", "", 0), at |-> 0]
LeaveFn == [op |-> "leave", sec |-> Section("", "", 0), at |-> 0]
Wrap(calls, n) == [i \in 1..n |-> CallFn] \o calls \o [i \in 1..n |-> LeaveFn]
Calls(secs) == [i \in 1..Len(secs) |-> Call(secs[i], 0)]
FreeCall(b, k) == IF k <= Len(b.seq) THEN <<Call(b.seq[k], k)>> ELSE <<>>

\* The section! calls a pass makes whatever the answers are
Root(b) ==
  CASE b.kind = "example" -> Calls(<<SecPush, SecInsert>>)
    [] b.kind = "tree"    -> Calls(TreeKids(0, b.w, b.d))
    [] b.kind = "branch"  -> Calls(<<SecA>>)
    [] b.mode = "seq"     -> Wrap([i \in 1..Len(b.seq) |-> Call(b.seq[i], i)], b.nested)
    [] OTHER              -> Wrap(FreeCall(b, 1), b.nested)

\* The section! calls that the answer val of call c leads to
Kids(b, c, val) ==
  CASE b.kind = "example" ->
         IF val /\ c.sec \in {SecPush, SecInsert}
         THEN Calls(<<SecReverse, SecPop>>) ELSE <<>>
    [] b.kind = "tree"    -> IF val THEN Calls(TreeKids(c.sec.line, b.w, b.d)) ELSE <<>>
    [] b.kind = "branch"  ->
         IF c.sec = SecA THEN Calls(IF val THEN <<SecC>> ELSE <<SecB>>) ELSE <<>>
    [] b.mode = "then"    -> IF val THEN FreeCall(b, c.at + 1) ELSE <<>>
    [] b.mode = "else"    -> IF val THEN <<>> ELSE FreeCall(b, c.at + 1)
    [] OTHER              -> <<>>

\* ---------------------------------------------------------------- state
VARIABLES
  CURRENT_RUNNER,  \* thread -> Runner
  pc,              \* thread -> position of the top-level test function
  nest,            \* thread -> nested enable_sections! functions on the stack
  body,            \* thread -> the body of the thread's test function
  todo,            \* thread -> section! calls the pass still makes
  runs,            \* thread -> top-level invocations started
  prevEnd,         \* thread -> how the previous invocation ended
  ret,             \* thread -> last engine operation and its result
  ran,             \* thread -> Paths dequeued by this invocation, in order
  enq,             \* thread -> Paths enqueued by this invocation, in order
  entered,         \* thread -> per pass, the sections section! answered true for
  asked,           \* thread -> per pass, the section! calls made and their answers
  enqPass,         \* thread -> for each Path of enq, the pass that pushed it
  fin,             \* thread -> per pass, how the body ended and the branch drop took
  out              \* thread -> buffers this invocation wrote to stderr

vars == <<CURRENT_RUNNER, pc, nest, body, todo, runs, prevEnd, ret, ran, enq,
          entered, asked, enqPass, fin, out>>

\* A version with one Runner for the process
StaticKey(t) == 1

\* thread_local!: the Runner that CURRENT_RUNNER.with gives thread t
LocalKey(t) == t

Ended == {"done", "panicked", "returned"}

\* ---------------------------------------------------------------- helpers
\* A version that gives every new entry the rank 0
ActiveCountZero(path) == 0

\* A version that counts every entry of the Path
ActiveCountAll(path) == Cardinality(DOMAIN path)

\* r.current.values().filter(|x| x.should_enter).count()
ActiveCount(path) == Cardinality({s \in DOMAIN path : path[s].should_enter})

\* path.insert(s, e)
Insert(path, s, e) == [x \in DOMAIN path \cup {s} |-> IF x = s THEN e ELSE path[x]]

\* A version that inserts only the section the Path is built for
InsertSelfOnly(path, new, section, count) == Insert(path, section, Entry(TRUE, count))

\* for s in &new { path.insert(*s, Entry {should_enter: s == section, index: count}) }
RECURSIVE InsertAll(_, _, _, _)
InsertAll(path, new, section, count) ==
  IF new = <<>> THEN path
  ELSE InsertAll(Insert(path, Head(new), Entry(Head(new) = section, count)),
                 Tail(new), section, count)

\* A version that leaves the loop after the first discovered section
NewPathsFirst(current, new) ==
  IF new = <<>> THEN <<>>
  ELSE <<InsertAll(current, new, new[1], ActiveCount(current))>>

\* A version that builds each Path from the discovered sections alone
NewPathsFresh(current, new) ==
  [i \in 1..Len(new) |-> InsertAll(EmptyPath, new, new[i], ActiveCount(current))]

\* for section in &new { ...; r.queue.push_back(path) }: the Paths pushed
NewPaths(current, new) ==
  [i \in 1..Len(new) |-> InsertAll(current, new, new[i], ActiveCount(current))]

\* A version without the sort: the active sections in any order
UnsortedActive(path) ==
  LET act == {s \in DOMAIN path : path[s].should_enter}
      n   == Cardinality(act)
  IN  {q \in [1..n -> act] : \A i, j \in 1..n : i # j => q[i] # q[j]}

\* current.sort_unstable_by(index) over the active entries of a HashMap: every
\* order of the active sections that is ascending in index
SortedActive(path) ==
  LET act == {s \in DOMAIN path : path[s].should_enter}
      n   == Cardinality(act)
  IN  {q \in [1..n -> act] :
         /\ \A i, j \in 1..n : i # j => q[i] # q[j]
         /\ \A i, j \in 1..n : i < j => path[q[i]].index <= path[q[j]].index}

\* decimal digits of a natural number
RECURSIVE Digits(_)
Digits(i) == IF i < 10 THEN <<i>> ELSE Append(Digits(i \div 10), i % 10)

\* "{: >3}": right-aligned in at least 3 columns
RightAlign3(ds) == IF Len(ds) >= 3 THEN ds ELSE [k \in 1..(3 - Len(ds)) |-> " "] \o ds

\* writeln!("{: >3}) {:?} at {}:{}", i, section.name, section.file, section.line)
TraceLine(i, section) ==
  [idx |-> RightAlign3(Digits(i)), name |-> <<"\"", section.name, "\"">>,
   file |-> section.file, line |-> section.line]

\* the buffer after the header line, for one order of the active sections
TraceBuffer(sorted) == [i \in 1..Len(sorted) |-> TraceLine(i - 1, sorted[i])]

\* ---------------------------------------------------------------- actions
Init ==
  /\ CURRENT_RUNNER = [t \in Threads |-> RunnerNew]
  /\ pc = [t \in Threads |-> IF t = 1 THEN "idle" ELSE "off"]
  /\ nest = [t \in Threads |-> 0]
  /\ \E b \in Bodies : body = [t \in Threads |-> IF t = 1 THEN b ELSE NoBody]
  /\ todo = [t \in Threads |-> <<>>]
  /\ runs = [t \in Threads |-> 0]
  /\ prevEnd = [t \in Threads |-> "none"]
  /\ ret = [t \in Threads |-> [op |-> "none", val |-> FALSE]]
  /\ ran = [t \in Threads |-> <<>>]
  /\ enq = [t \in Threads |-> <<>>]
  /\ entered = [t \in Threads |-> <<>>]
  /\ asked = [t \in Threads |-> <<>>]
  /\ enqPass = [t \in Threads |-> <<>>]
  /\ fin = [t \in Threads |-> <<>>]
  /\ out = [t \in Threads |-> <<>>]

\* A version that refills the queue and keeps current and new
StartRunnerKeep(r) == IF r.is_running THEN r ELSE [r EXCEPT !.queue = <<EmptyPath>>]

\* enable_sections_start(): the answer
StartAnswer(r) == ~r.is_running

\* A version that replaces the Runner whether or not a pass is running
StartRunnerAlways(r) == RunnerNew

\* enable_sections_start(): the Runner afterwards
StartRunner(r) == IF r.is_running THEN r ELSE RunnerNew

\* "let is_top_level = enable_sections_start()" of a test function
Start(t) ==
  /\ UNCHANGED body
  /\ CURRENT_RUNNER' = [CURRENT_RUNNER EXCEPT ![LocalKey(t)] = StartRunner(@)]
  /\ ret' = [ret EXCEPT ![t] = [op |-> "start", val |-> StartAnswer(CURRENT_RUNNER[LocalKey(t)])]]
  /\ IF ~StartAnswer(CURRENT_RUNNER[LocalKey(t)])
     THEN /\ nest' = [nest EXCEPT ![t] = @ + 1]
          /\ todo' = [todo EXCEPT ![t] = Tail(@)]
          /\ UNCHANGED <<pc, runs, prevEnd, ran, enq, entered, asked, enqPass, fin, out>>
     ELSE /\ pc' = [pc EXCEPT ![t] = "loop"]
          /\ runs' = [runs EXCEPT ![t] = @ + 1]
          /\ prevEnd' = [prevEnd EXCEPT ![t] = IF pc[t] = "idle" THEN "none" ELSE pc[t]]
          /\ nest' = [nest EXCEPT ![t] = 0]
          /\ todo' = [todo EXCEPT ![t] = <<>>]
          /\ ran' = [ran EXCEPT ![t] = <<>>]
          /\ enq' = [enq EXCEPT ![t] = <<>>]
          /\ entered' = [entered EXCEPT ![t] = <<>>]
          /\ asked' = [asked EXCEPT ![t] = <<>>]
          /\ enqPass' = [enqPass EXCEPT ![t] = <<>>]
          /\ fin' = [fin EXCEPT ![t] = <<>>]
          /\ out' = [out EXCEPT ![t] = <<>>]

\* A version that takes the back of the queue
StepRunnerBack(r) ==
  [is_running |-> TRUE, queue |-> SubSeq(r.queue, 1, Len(r.queue) - 1),
   current |-> r.queue[Len(r.queue)], new |-> <<>>]

\* The Runner after enable_sections_step() took the front of the queue
StepRunner(r) ==
  [is_running |-> TRUE, queue |-> Tail(r.queue), current |-> Head(r.queue), new |-> <<>>]

\* "if is_top_level && !enable_sections_step() { break; }" and the start of the body
Step(t) ==
  /\ pc[t] = "loop"
  /\ LET r == CURRENT_RUNNER[LocalKey(t)] IN
     IF r.queue # <<>>
     THEN /\ CURRENT_RUNNER' = [CURRENT_RUNNER EXCEPT ![LocalKey(t)] = StepRunner(r)]
          /\ ret' = [ret EXCEPT ![t] = [op |-> "step", val |-> TRUE]]
          /\ pc' = [pc EXCEPT ![t] = "body"]
          /\ todo' = [todo EXCEPT ![t] = Root(body[t])]
          /\ ran' = [ran EXCEPT ![t] = Append(@, Head(r.queue))]
          /\ entered' = [entered EXCEPT ![t] = Append(@, {})]
          /\ asked' = [asked EXCEPT ![t] = Append(@, <<>>)]
          /\ UNCHANGED <<nest, body, runs, prevEnd, enq, enqPass, fin, out>>
     ELSE /\ ret' = [ret EXCEPT ![t] = [op |-> "step", val |-> FALSE]]
          /\ pc' = [pc EXCEPT ![t] = "done"]
          /\ UNCHANGED <<CURRENT_RUNNER, nest, body, todo, runs, prevEnd, ran, enq,
                         entered, asked, enqPass, fin, out>>

\* A version that enters a section the first time it is seen
EnterAnswerEager(r, section) ==
  IF section \in DOMAIN r.current THEN r.current[section].should_enter ELSE TRUE

\* enter_section(name, file, line): the answer
EnterAnswer(r, section) ==
  IF section \in DOMAIN r.current THEN r.current[section].should_enter ELSE FALSE

\* A version that records a new section at the front of the discovered list
EnterRunnerFront(r, section) ==
  IF section \in DOMAIN r.current THEN r ELSE [r EXCEPT !.new = <<section>> \o @]

\* enter_section(name, file, line): the Runner afterwards
EnterRunner(r, section) ==
  IF section \in DOMAIN r.current THEN r ELSE [r EXCEPT !.new = Append(@, section)]

\* A version that replaces the queue by the new Paths
DropSuccessReplace(r) ==
  [is_running |-> FALSE, queue |-> NewPaths(r.current, r.new),
   current |-> r.current, new |-> <<>>]

\* The Runner after the top-level DropHandler was dropped with was_success = true
DropSuccessRunner(r) ==
  [is_running |-> FALSE, queue |-> r.queue \o NewPaths(r.current, r.new),
   current |-> r.current, new |-> <<>>]

\* A version that takes the new sections whatever was_success is
DropFailureSwap(r) == [r EXCEPT !.is_running = FALSE, !.new = <<>>]

\* A version of the failure branch that leaves the running flag set
DropFailureKeep(r) == r

\* The Runner after the top-level DropHandler was dropped with was_success = false
DropFailureRunner(r) == [r EXCEPT !.is_running = FALSE]

\* What the failure branch of drop may write: nothing when no entry is active
DropFailureOut(r, written) ==
  IF ActiveCount(r.current) = 0 THEN {written}
  ELSE {Append(written, TraceBuffer(sorted)) : sorted \in SortedActive(r.current)}

\* The drop of the top-level DropHandler while was_success is still false
DropFailure(t, how, where) ==
  /\ CURRENT_RUNNER' = [CURRENT_RUNNER EXCEPT ![LocalKey(t)] = DropFailureRunner(@)]
  /\ \E o \in DropFailureOut(CURRENT_RUNNER[LocalKey(t)], out[t]) : out' = [out EXCEPT ![t] = o]
  /\ fin' = [fin EXCEPT ![t] = Append(@, [end |-> how, kind |-> "failure"])]
  /\ ret' = [ret EXCEPT ![t] = [op |-> "drop", val |-> FALSE]]
  /\ pc' = [pc EXCEPT ![t] = where]
  /\ nest' = [nest EXCEPT ![t] = 0]
  /\ UNCHANGED <<body, todo, runs, prevEnd, ran, enq, entered, asked, enqPass>>

\* A version of the test without the assertion
IsRunningAny(r) == TRUE

\* is_running(), as "assert!($crate::is_running(), ...)" tests it
IsRunning(r) == r.is_running

\* section!(name) inside the body: the assertion, then enter_section
Query(t) ==
  /\ pc[t] = "body"
  /\ todo[t] # <<>>
  /\ Head(todo[t]).op = "section"
  /\ LET r == CURRENT_RUNNER[LocalKey(t)]
         s == Head(todo[t]).sec
     IN  IF IsRunning(r)
         THEN /\ CURRENT_RUNNER' = [CURRENT_RUNNER EXCEPT ![LocalKey(t)] = EnterRunner(r, s)]
              /\ ret' = [ret EXCEPT ![t] = [op |-> "section", val |-> EnterAnswer(r, s)]]
              /\ todo' = [todo EXCEPT ![t] =
                            Kids(body[t], Head(@), EnterAnswer(r, s)) \o Tail(@)]
              /\ entered' = [entered EXCEPT ![t] =
                               IF EnterAnswer(r, s)
                               THEN [@ EXCEPT ![Len(@)] = @ \cup {s}] ELSE @]
              /\ asked' = [asked EXCEPT ![t] =
                             [@ EXCEPT ![Len(@)] =
                                Append(@, [sec |-> s, val |-> EnterAnswer(r, s)])]]
              /\ UNCHANGED <<pc, nest, body, runs, prevEnd, ran, enq, enqPass, fin, out>>
         ELSE DropFailure(t, "panic", "panicked")

\* The body ran to its end: "scope.was_success = true", then scope is dropped
BodyEnd(t) ==
  /\ pc[t] = "body"
  /\ todo[t] = <<>>
  /\ LET r == CURRENT_RUNNER[LocalKey(t)] IN
     /\ CURRENT_RUNNER' = [CURRENT_RUNNER EXCEPT ![LocalKey(t)] = DropSuccessRunner(r)]
     /\ enq' = [enq EXCEPT ![t] = @ \o NewPaths(r.current, r.new)]
     /\ enqPass' = [enqPass EXCEPT ![t] = @ \o [i \in 1..Len(r.new) |-> Len(ran[t])]]
  /\ fin' = [fin EXCEPT ![t] = Append(@, [end |-> "normal", kind |-> "success"])]
  /\ ret' = [ret EXCEPT ![t] = [op |-> "drop", val |-> TRUE]]
  /\ pc' = [pc EXCEPT ![t] = "loop"]
  /\ UNCHANGED <<nest, body, todo, runs, prevEnd, ran, entered, asked, out>>

\* The body of a nested function ends: its DropHandler has is_top_level =
\* false, its drop returns at once, and "if !is_top_level { break; }" leaves
NestedEnd(t) ==
  /\ pc[t] = "body"
  /\ todo[t] # <<>>
  /\ Head(todo[t]).op = "leave"
  /\ nest' = [nest EXCEPT ![t] = @ - 1]
  /\ todo' = [todo EXCEPT ![t] = Tail(@)]
  /\ ret' = [ret EXCEPT ![t] = [op |-> "drop", val |-> TRUE]]
  /\ UNCHANGED <<CURRENT_RUNNER, pc, body, runs, prevEnd, ran, enq, entered, asked,
                 enqPass, fin, out>>

\* The body panics: the stack unwinds through the nested DropHandlers (no
\* effect) and the top-level one, and the panic leaves the test function
Abort(t) ==
  /\ pc[t] = "body"
  /\ body[t].exits
  /\ DropFailure(t, "panic", "panicked")

\* The top-level body executes "return": scope is dropped before
\* "scope.was_success = true" was reached, and the function returns
EarlyReturn(t) ==
  /\ pc[t] = "body"
  /\ body[t].exits
  /\ nest[t] = 0
  /\ DropFailure(t, "return", "returned")

\* The test harness calls the thread's test function
TopStart(t) ==
  /\ pc[t] \in {"idle"} \cup Ended
  /\ runs[t] < MaxRuns
  /\ Start(t)

\* The body calls a nested enable_sections! function
NestedStart(t) ==
  /\ pc[t] = "body"
  /\ todo[t] # <<>>
  /\ Head(todo[t]).op = "call"
  /\ Start(t)

\* section!(name) evaluated on the thread by code that is not inside the body
\* of an enable_sections! function: the assertion fails unless a pass runs
Misuse(t) ==
  /\ pc[t] \in {"idle", "loop"} \cup Ended
  /\ \E s \in FreeSecs :
       LET r == CURRENT_RUNNER[LocalKey(t)] IN
       IF IsRunning(r)
       THEN /\ CURRENT_RUNNER' = [CURRENT_RUNNER EXCEPT ![LocalKey(t)] = EnterRunner(r, s)]
            /\ ret' = [ret EXCEPT ![t] = [op |-> "section", val |-> EnterAnswer(r, s)]]
       ELSE /\ ret' = [ret EXCEPT ![t] = [op |-> "assert", val |-> FALSE]]
            /\ UNCHANGED CURRENT_RUNNER
  /\ UNCHANGED <<pc, nest, body, todo, runs, prevEnd, ran, enq, entered, asked, enqPass,
                 fin, out>>

\* The steps of a test function that has been called
Run(t) ==
  \/ Step(t)
  \/ Query(t)
  \/ NestedStart(t)
  \/ NestedEnd(t)
  \/ BodyEnd(t)
  \/ Abort(t)
  \/ EarlyReturn(t)

Next == \E t \in Threads : TopStart(t) \/ Run(t) \/ Misuse(t)

Spec == Init /\ [][Next]_vars

\* A called test function keeps executing
LiveSpec == Init /\ [][Next]_vars /\ \A t \in Threads : WF_vars(Run(t))

\* Two threads of the test harness, each with its own test function
ThreadBodies ==
  {b \in Bodies :
     \/ b.kind = "tree" /\ b.w = 2 /\ b.d = 1 /\ ~b.exits
     \/ b.kind = "free" /\ b.seq = <<Section("f", "free.rs", 1)>> /\ b.mode = "seq"
          /\ b.nested = 1 /\ b.exits}

ThreadInit ==
  /\ CURRENT_RUNNER = [t \in Threads |-> RunnerNew]
  /\ pc = [t \in Threads |-> IF t <= 2 THEN "idle" ELSE "off"]
  /\ nest = [t \in Threads |-> 0]
  /\ body \in [Threads -> ThreadBodies \cup {NoBody}]
  /\ \A t \in Threads : body[t] = NoBody <=> t > 2
  /\ todo = [t \in Threads |-> <<>>]
  /\ runs = [t \in Threads |-> 0]
  /\ prevEnd = [t \in Threads |-> "none"]
  /\ ret = [t \in Threads |-> [op |-> "none", val |-> FALSE]]
  /\ ran = [t \in Threads |-> <<>>]
  /\ enq = [t \in Threads |-> <<>>]
  /\ entered = [t \in Threads |-> <<>>]
  /\ asked = [t \in Threads |-> <<>>]
  /\ enqPass = [t \in Threads |-> <<>>]
  /\ fin = [t \in Threads |-> <<>>]
  /\ out = [t \in Threads |-> <<>>]

ThreadSpec == ThreadInit /\ [][Next]_vars

\* ---------------------------------------------------------------- claims
\* The passes of the invocation in progress
Passes(t) == Len(ran[t])

\* The sections of a tree-shaped body, level by level
RECURSIVE TreeSecsBelow(_, _, _)
TreeSecsBelow(n, w, d) ==
  LET kids == Range(TreeKids(n, w, d))
  IN  kids \cup UNION {TreeSecsBelow(k.line, w, d) : k \in kids}
TreeSecs(b) == TreeSecsBelow(0, b.w, b.d)
RECURSIVE Pow(_, _)
Pow(w, d) == IF d = 0 THEN 1 ELSE w * Pow(w, d - 1)

ExampleCombos ==
  {{SecPush}, {SecPush, SecReverse}, {SecPush, SecPop},
   {SecInsert}, {SecInsert, SecReverse}, {SecInsert, SecPop}}

\* C1 as stated: the example body is run in exactly 6 passes whose active sets
\* are the six documented combinations.
C1_SixPasses ==
  \A t \in Threads :
    pc[t] = "done" /\ body[t].kind = "example" =>
      /\ Passes(t) = 6
      /\ Range(entered[t]) = ExampleCombos

\* C1, amended: the example body is run in exactly 7 passes: one pass with no
\* active section and one pass for each of the six documented combinations.
C1_SevenPasses ==
  \A t \in Threads :
    pc[t] = "done" /\ body[t].kind = "example" =>
      /\ Passes(t) = 7
      /\ Len(entered[t]) = 7
      /\ Range(entered[t]) = ExampleCombos \cup {{}}

C1_Witness == \E t \in Threads : pc[t] = "done" /\ body[t].kind = "example"

\* The sections a Path marks active
Active(path) == {s \in DOMAIN path : path[s].should_enter}

\* C2 as stated: k independent sections are run in exactly k passes, each
\* with exactly one section active.
C2_KPasses ==
  \A t \in Threads :
    pc[t] = "done" /\ body[t].kind = "tree" /\ body[t].d = 1 =>
      /\ Passes(t) = body[t].w
      /\ \A i \in 1..Passes(t) : Cardinality(entered[t][i]) = 1

\* C2, amended: k independent sections are run in exactly k+1 passes: a first
\* pass in which no section is active, then k passes in each of which exactly
\* one section is active and the other k-1 are present and inactive, every
\* section being the active one of exactly one pass.
C2_KPlusOnePasses ==
  \A t \in Threads :
    pc[t] = "done" /\ body[t].kind = "tree" /\ body[t].d = 1 =>
      LET k == body[t].w IN
      /\ Passes(t) = k + 1
      /\ Len(entered[t]) = k + 1
      /\ entered[t][1] = {}
      /\ \A i \in 2..(k + 1) :
           /\ Cardinality(entered[t][i]) = 1
           /\ entered[t][i] = Active(ran[t][i])
           /\ DOMAIN ran[t][i] = TreeSecs(body[t])
      /\ \A s \in TreeSecs(body[t]) :
           Cardinality({i \in 1..(k + 1) : s \in entered[t][i]}) = 1

C2_Witness ==
  \E t \in Threads :
    pc[t] = "done" /\ body[t].kind = "tree" /\ body[t].d = 1 /\ body[t].w = MaxWidth

\* C3 as stated: a tree-shaped body is run in as many passes as the nesting
\* tree has leaf combinations; 2 outer sections of 2 inner sections give 4.
C3_LeafPasses ==
  \A t \in Threads :
    pc[t] = "done" /\ body[t].kind = "tree" /\ body[t].w >= 1 =>
      Passes(t) = Pow(body[t].w, body[t].d)

\* C3, amended: a tree-shaped body is run in one pass for the empty
\* combination plus one pass for every section of the nesting tree; the
\* passes whose active sections reach the innermost level are the leaf
\* combinations.  2 outer sections of 2 inner sections give 7 passes, 4 of
\* them with an inner section active.
C3_NodePasses ==
  \A t \in Threads :
    pc[t] = "done" /\ body[t].kind = "tree" =>
      LET b == body[t]
          leafs == {i \in 1..Passes(t) : Cardinality(entered[t][i]) = b.d}
      IN  /\ Passes(t) = 1 + Cardinality(TreeSecs(b))
          /\ b.w >= 1 => Cardinality(leafs) = Pow(b.w, b.d)
          /\ b.w = 2 /\ b.d = 2 => Passes(t) = 7 /\ Cardinality(leafs) = 4

C3_Witness ==
  \E t \in Threads :
    pc[t] = "done" /\ body[t].kind = "tree" /\ body[t].w = 2 /\ body[t].d = 2

\* A sequence without two equal elements
NoRepeat(seq) == \A i, j \in 1..Len(seq) : i # j => seq[i] # seq[j]

\* C4 as stated: the Path a step() dequeues differs from every Path dequeued
\* earlier in the run and from every Path still in the queue.
C4_UniquePaths ==
  \A t \in Threads :
    /\ NoRepeat(ran[t])
    /\ ret[t] = [op |-> "step", val |-> TRUE] =>
         CURRENT_RUNNER[t].current \notin Range(CURRENT_RUNNER[t].queue)

\* C5 as stated: a Section queried twice within one pass is recorded as newly
\* discovered once, and the success finalization enqueues at most one Path
\* for it.
C5_DiscoveredOnce ==
  \A t \in Threads :
    /\ NoRepeat(CURRENT_RUNNER[t].new)
    /\ NoRepeat(enq[t])

\* C6: an invocation whose body has no panic and no return reaches the
\* false answer of step(); whenever step() has answered false the queue is
\* empty and the Paths run are the empty Path followed by the Paths
\* enqueued, each once.
C6_Terminates ==
  /\ \A t \in Threads : (pc[t] = "loop" /\ ~body[t].exits) ~> (pc[t] = "done")
  /\ [](\A t \in Threads :
          pc[t] = "done" =>
            /\ CURRENT_RUNNER[t].queue = <<>>
            /\ ran[t] = <<EmptyPath>> \o enq[t])

C6_Witness ==
  \E t \in Threads :
    pc[t] = "done" /\ ~body[t].exits /\ body[t].kind = "free" /\ Len(ran[t]) > 2

\* C7 as stated: every top-level pass is finalized once, by the success
\* branch when the body returned (at its end or by an early return) and by
\* the failure branch only when the body aborted.
C7_FinalizationMatches ==
  \A t \in Threads :
    /\ Len(fin[t]) = IF pc[t] = "body" THEN Passes(t) - 1 ELSE Passes(t)
    /\ \A i \in 1..Len(fin[t]) :
         /\ fin[t][i].end \in {"normal", "return"} => fin[t][i].kind = "success"
         /\ fin[t][i].kind = "failure" => fin[t][i].end = "panic"

\* The Section a line of the report cites
LineSection(l) == Section(l.name[2], l.file, l.line)

\* C8: after an abort the report has one line for each active section of the
\* current Path and no other line, in ascending order of rank, numbered from
\* 0; nothing is written when no section is active; with "push" at rank 0 and
\* "pop+remove+insert+push" at rank 1 the lines are these two in this order.
C8_FailureReport ==
  \A t \in Threads :
    pc[t] = "panicked" =>
      LET cur == CURRENT_RUNNER[t].current
          act == Active(cur)
      IN  IF act = {} THEN out[t] = <<>>
          ELSE /\ Len(out[t]) = 1
               /\ LET buf == out[t][1] IN
                  /\ Len(buf) = Cardinality(act)
                  /\ \A i \in 1..Len(buf) :
                       /\ LineSection(buf[i]) \in act
                       /\ buf[i].name = <<"\"", LineSection(buf[i]).name, "\"">>
                       /\ i <= 10 => buf[i].idx = <<" ", " ", i - 1>>
                  /\ \A i, j \in 1..Len(buf) :
                       i < j => /\ LineSection(buf[i]) # LineSection(buf[j])
                                /\ cur[LineSection(buf[i])].index
                                     <= cur[LineSection(buf[j])].index
                  /\ (/\ act = {SecPush, SecPop}
                      /\ cur[SecPush].index = 0
                      /\ cur[SecPop].index = 1)
                     => /\ LineSection(buf[1]) = SecPush
                        /\ LineSection(buf[2]) = SecPop

C8_Witness ==
  \E t \in Threads :
    /\ pc[t] = "panicked"
    /\ Active(CURRENT_RUNNER[t].current) = {SecPush, SecPop}
    /\ Len(out[t]) = 1

\* C9: the failure finalization of an aborted pass clears the running flag
\* and leaves the queue, the current Path and the discovered list as they
\* were, enqueues nothing, and the invocation makes no further step.
C9_AbortFrame ==
  [][\A t \in Threads :
       /\ (pc[t] = "body" /\ pc'[t] = "panicked") =>
            /\ CURRENT_RUNNER'[t] = [CURRENT_RUNNER[t] EXCEPT !.is_running = FALSE]
            /\ enq'[t] = enq[t]
            /\ ran'[t] = ran[t]
       /\ pc[t] = "panicked" =>
            \/ /\ pc'[t] = "panicked"
               /\ CURRENT_RUNNER'[t] = CURRENT_RUNNER[t]
               /\ ran'[t] = ran[t]
            \/ /\ ret'[t].op = "start"
               /\ runs'[t] = runs[t] + 1]_vars

C9_Witness ==
  \E t \in Threads :
    /\ pc[t] = "panicked"
    /\ CURRENT_RUNNER[t].new # <<>>
    /\ CURRENT_RUNNER[t].queue # <<>>

\* C10: start() answers true exactly when no pass is in progress on the
\* thread; answering true it leaves the Runner in its initial state, whatever
\* it held; answering false it leaves the Runner as it was.
C10_Start ==
  [][\A t \in Threads :
       (ret'[t].op = "start" /\ (runs'[t] # runs[t] \/ nest'[t] # nest[t])) =>
         /\ ret'[t].val = (pc[t] # "body")
         /\ ret'[t].val =>
              /\ CURRENT_RUNNER'[t].queue = <<EmptyPath>>
              /\ CURRENT_RUNNER'[t].current = EmptyPath
              /\ CURRENT_RUNNER'[t].new = <<>>
              /\ ~CURRENT_RUNNER'[t].is_running
         /\ ~ret'[t].val => CURRENT_RUNNER'[t] = CURRENT_RUNNER[t]]_vars

C10_Witness ==
  \E t \in Threads :
    /\ prevEnd[t] = "panicked"
    /\ ret[t] = [op |-> "start", val |-> FALSE]
    /\ nest[t] > 0

\* C11: step() takes the queue in first-in first-out order.  On a non-empty
\* queue it removes the front Path, makes it the current Path, empties the
\* discovered list, sets the running flag and answers true, the rest of the
\* queue keeping its order; on an empty queue it answers false and leaves the
\* current Path, the discovered list and the running flag as they were.
C11_StepFifo ==
  [][\A t \in Threads :
       (pc[t] = "loop" /\ pc'[t] # "loop") =>
         LET r == CURRENT_RUNNER[t]
             q == CURRENT_RUNNER'[t]
         IN  /\ ret'[t].op = "step"
             /\ ret'[t].val = (r.queue # <<>>)
             /\ r.queue # <<>> =>
                  /\ q.current = r.queue[1]
                  /\ q.queue = [i \in 1..(Len(r.queue) - 1) |-> r.queue[i + 1]]
                  /\ q.new = <<>>
                  /\ q.is_running
                  /\ ran'[t] = Append(ran[t], r.queue[1])
             /\ r.queue = <<>> =>
                  /\ q = r
                  /\ ran'[t] = ran[t]]_vars

C11_Witness ==
  \E t \in Threads :
    /\ ret[t] = [op |-> "step", val |-> TRUE]
    /\ Len(CURRENT_RUNNER[t].queue) >= 2
    /\ CURRENT_RUNNER[t].queue[1] # CURRENT_RUNNER[t].queue[2]
    /\ Len(ran[t]) >= 2

\* C12: a section! query never changes the current Path or the queue.  For a
\* section of the current Path it answers the recorded should_enter and
\* changes nothing; for any other section it appends the section to the end
\* of the discovered list and answers false.  So no section is entered in the
\* pass that first sees it, and two queries of one section within a pass get
\* the same answer.
C12_Query ==
  /\ [][\A t \in Threads :
          (pc[t] = "body" /\ asked'[t] # asked[t]) =>
            LET r == CURRENT_RUNNER[t]
                q == CURRENT_RUNNER'[t]
                s == Head(todo[t]).sec
            IN  /\ ret'[t].op = "section"
                /\ q.current = r.current
                /\ q.queue = r.queue
                /\ IF s \in DOMAIN r.current
                   THEN /\ ret'[t].val = r.current[s].should_enter
                        /\ q = r
                   ELSE /\ ~ret'[t].val
                        /\ q.new = r.new \o <<s>>
                        /\ q.is_running = r.is_running]_vars
  /\ [](\A t \in Threads : \A i \in 1..Len(asked[t]) :
          \A j, k \in 1..Len(asked[t][i]) :
            LET a == asked[t][i][j]
                b == asked[t][i][k]
            IN  /\ a.sec = b.sec => a.val = b.val
                /\ a.val => a.sec \in DOMAIN ran[t][i])

C12_Witness ==
  \E t \in Threads : \E i, n \in 1..Len(asked[t]) :
    /\ \E j, k \in 1..Len(asked[t][i]) :
         /\ j < k
         /\ asked[t][i][j].sec = asked[t][i][k].sec
         /\ ~asked[t][i][j].val
         /\ asked[t][i][j].sec \notin DOMAIN ran[t][i]
    /\ \E j, k \in 1..Len(asked[t][n]) :
         /\ j < k
         /\ asked[t][n][j].sec = asked[t][n][k].sec
         /\ asked[t][n][j].val

\* C13: the success finalization of a pass with current Path P and
\* discovered list S1..Sn appends exactly n Paths to the back of the queue,
\* in discovery order, the Paths already queued staying in place.  The i-th
\* new Path agrees with P on every section of P, contains every Sj, enters
\* Si and no other Sj, and gives every Sj the number of active sections of P
\* as its rank.  The discovered list is left empty and the running flag false.
C13_SuccessFinalization ==
  [][\A t \in Threads :
       (pc[t] = "body" /\ pc'[t] = "loop") =>
         LET r == CURRENT_RUNNER[t]
             q == CURRENT_RUNNER'[t]
             P == r.current
             S == r.new
             n == Len(S)
             old == Len(r.queue)
         IN  /\ Len(q.queue) = old + n
             /\ \A i \in 1..old : q.queue[i] = r.queue[i]
             /\ \A i \in 1..n :
                  LET p == q.queue[old + i] IN
                  /\ DOMAIN p = DOMAIN P \cup {S[j] : j \in 1..n}
                  /\ \A s \in DOMAIN P : p[s] = P[s]
                  /\ \A j \in 1..n :
                       /\ p[S[j]].should_enter = (S[j] = S[i])
                       /\ p[S[j]].index = Cardinality(Active(P))
                  /\ enq'[t][Len(enq[t]) + i] = p
             /\ Len(enq'[t]) = Len(enq[t]) + n
             /\ q.new = <<>>
             /\ ~q.is_running]_vars

C13_Witness ==
  \E t \in Threads :
    LET r == CURRENT_RUNNER[t] IN
    /\ pc[t] = "loop"
    /\ ret[t] = [op |-> "drop", val |-> TRUE]
    /\ Len(r.queue) >= 3
    /\ Active(r.current) # {}
    /\ Len(enqPass[t]) >= 2
    /\ enqPass[t][Len(enqPass[t])] = Len(ran[t])
    /\ enqPass[t][Len(enqPass[t]) - 1] = Len(ran[t])
    /\ r.queue[1] = enq[t][Len(ran[t])]

\* C14: an enable_sections! function called while a pass is running on the
\* thread has its start() rejected, executes its body once without calling
\* step(), and the finalization of its guard changes no engine state,
\* whether its body completed or aborted.  Its section! queries are answered
\* from and recorded in the state of the enclosing pass, and it enqueues no
\* Path: only the outermost invocation does.
C14_Nested ==
  [][\A t \in Threads :
       LET r == CURRENT_RUNNER[t]
           q == CURRENT_RUNNER'[t]
       IN
       \* the call: start() is rejected and the body starts at once
       /\ nest'[t] > nest[t] =>
            /\ ret'[t] = [op |-> "start", val |-> FALSE]
            /\ q = r
            /\ pc'[t] = "body"
            /\ ran'[t] = ran[t]
            /\ enq'[t] = enq[t]
       \* the guard of a nested body that completed
       /\ (nest'[t] < nest[t] /\ pc'[t] = "body") =>
            /\ q = r
            /\ ran'[t] = ran[t]
            /\ enq'[t] = enq[t]
       \* the guard of a nested body that aborted, then the enclosing guard
       /\ (nest[t] > 0 /\ pc'[t] # "body") =>
            /\ pc'[t] = "panicked"
            /\ q = [r EXCEPT !.is_running = FALSE]
            /\ ran'[t] = ran[t]
            /\ enq'[t] = enq[t]
       \* a query made by the nested body
       /\ (nest[t] > 0 /\ asked'[t] # asked[t]) =>
            LET s == Head(todo[t]).sec IN
            /\ Len(asked'[t]) = Len(asked[t])
            /\ ran'[t] = ran[t]
            /\ enq'[t] = enq[t]
            /\ q.current = r.current
            /\ q.queue = r.queue
            /\ q.is_running
            /\ ret'[t].val = (s \in DOMAIN r.current /\ r.current[s].should_enter)
            /\ q.new = IF s \in DOMAIN r.current THEN r.new ELSE Append(r.new, s)]_vars

C14_Witness ==
  \E t \in Threads :
    /\ pc[t] = "body"
    /\ nest[t] = 0
    /\ ret[t] = [op |-> "drop", val |-> TRUE]
    /\ CURRENT_RUNNER[t].new # <<>>
    /\ CURRENT_RUNNER[t].is_running
    /\ \E j \in 1..Len(asked[t][Len(asked[t])]) : asked[t][Len(asked[t])][j].val

\* C15: section! invoked while no pass is in progress on the thread (before
\* any start(), between start() and the first step(), after a pass was
\* finalized, after the queue was exhausted) fails its assertion and leaves
\* the engine state as it was: nothing is appended to the discovered list.
C15_SectionOutsidePass ==
  /\ [][\A t \in Threads :
          LET r == CURRENT_RUNNER[t]
              q == CURRENT_RUNNER'[t]
              invoked == /\ ret'[t].op \in {"section", "assert"}
                         /\ ret'[t] # ret[t] \/ asked'[t] # asked[t] \/ q # r
          IN  invoked =>
                /\ (ret'[t].op = "assert") = ~r.is_running
                /\ ~r.is_running =>
                     /\ q = r
                     /\ ran'[t] = ran[t]
                     /\ enq'[t] = enq[t]
                     /\ asked'[t] = asked[t]
                     /\ pc'[t] = pc[t]]_vars
  /\ [](\A t \in Threads :
          pc[t] \in {"idle", "loop", "done", "panicked", "returned"} =>
            ~CURRENT_RUNNER[t].is_running)

C15_Witness ==
  \E t \in Threads :
    /\ ret[t] = [op |-> "assert", val |-> FALSE]
    /\ pc[t] = "loop"
    /\ Active(CURRENT_RUNNER[t].current) # {}
    /\ CURRENT_RUNNER[t].queue # <<>>
    /\ ~CURRENT_RUNNER[t].is_running

\* What one pass of body b on the Path cur asks and discovers, computed as a
\* function of b and cur alone
RECURSIVE AlonePass(_, _, _, _, _)
AlonePass(b, cur, td, new, log) ==
  IF td = <<>> THEN [new |-> new, asked |-> log]
  ELSE LET c == Head(td) IN
       IF c.op # "section" THEN AlonePass(b, cur, Tail(td), new, log)
       ELSE LET known == c.sec \in DOMAIN cur
                val == known /\ cur[c.sec].should_enter
            IN  AlonePass(b, cur, Kids(b, c, val) \o Tail(td),
                          IF known THEN new ELSE Append(new, c.sec),
                          Append(log, [sec |-> c.sec, val |-> val]))

\* The passes of a run of body b on a thread of its own: the Paths run, in
\* order, and the queries of each pass
RECURSIVE AloneFrom(_, _, _, _)
AloneFrom(b, queue, paths, logs) ==
  IF queue = <<>> THEN [ran |-> paths, asked |-> logs]
  ELSE LET cur == Head(queue)
           p == AlonePass(b, cur, Root(b), <<>>, <<>>)
       IN  AloneFrom(b, Tail(queue) \o NewPaths(cur, p.new), Append(paths, cur),
                     Append(logs, p.asked))

AloneRun(b) == AloneFrom(b, <<EmptyPath>>, <<>>, <<>>)

IsPrefix(s, u) == Len(s) <= Len(u) /\ \A i \in 1..Len(s) : s[i] = u[i]

\* C16: the engine state is per thread.  With two threads each running its
\* own test, under every interleaving each thread performs the passes it
\* performs alone (the same Paths in the same order, the same answers), and
\* no step of one thread changes the queue, the current Path, the discovered
\* list or the running flag of the other.
C16_PerThread ==
  /\ [](\A t \in Threads :
          body[t] # NoBody =>
            LET alone == AloneRun(body[t]) IN
            /\ IsPrefix(ran[t], alone.ran)
            /\ \A i \in 1..Len(asked[t]) :
                 /\ IsPrefix(asked[t][i], alone.asked[i])
                 /\ (i < Len(asked[t]) \/ pc[t] \in {"loop", "done"}) =>
                      asked[t][i] = alone.asked[i]
            /\ pc[t] = "done" => ran[t] = alone.ran)
  /\ [][\E t \in Threads : \A u \in Threads \ {t} :
          /\ CURRENT_RUNNER'[u] = CURRENT_RUNNER[u]
          /\ pc'[u] = pc[u]
          /\ ran'[u] = ran[u]
          /\ asked'[u] = asked[u]
          /\ enq'[u] = enq[u]]_vars

C16_Witness ==
  /\ pc[1] = "body"
  /\ pc[2] = "body"
  /\ body[1] # body[2]
  /\ Len(ran[1]) >= 2
  /\ Active(CURRENT_RUNNER[1].current) # {}
  /\ CURRENT_RUNNER[1].queue # <<>>
  /\ Len(ran[2]) = 1
  /\ CURRENT_RUNNER[2].new # <<>>
  /\ CURRENT_RUNNER[2].queue = <<>>

\* C17: the running flag is true exactly between a step() that answered true
\* and the finalization of the top-level guard: it is false before the first
\* step, between two passes, after step() answered false and after a pass
\* aborted, so a later start() on the thread is accepted after a completed
\* run and after an aborted one.
C17_RunningFlag ==
  /\ [](\A t \in Threads :
          /\ CURRENT_RUNNER[t].is_running = (Len(ran[t]) = Len(fin[t]) + 1)
          /\ ~CURRENT_RUNNER[t].is_running => Len(ran[t]) = Len(fin[t])
          /\ CURRENT_RUNNER[t].is_running = (pc[t] = "body")
          /\ pc[t] \in Ended => StartAnswer(CURRENT_RUNNER[t]))
  /\ [][\A t \in Threads :
          /\ (~CURRENT_RUNNER[t].is_running /\ CURRENT_RUNNER'[t].is_running) =>
               ret'[t] = [op |-> "step", val |-> TRUE]
          /\ (CURRENT_RUNNER[t].is_running /\ ~CURRENT_RUNNER'[t].is_running) =>
               /\ ret'[t].op = "drop"
               /\ nest'[t] = 0
          /\ (runs'[t] # runs[t] /\ pc[t] \in Ended) =>
               ret'[t] = [op |-> "start", val |-> TRUE]]_vars

C17_Witness ==
  \E t \in Threads :
    /\ prevEnd[t] = "panicked"
    /\ pc[t] = "loop"
    /\ Len(ran[t]) >= 1
    /\ CURRENT_RUNNER[t].queue # <<>>
    /\ ~CURRENT_RUNNER[t].is_running

\* The Paths the Runner of thread t holds
HeldPaths(t) == {CURRENT_RUNNER[t].current} \cup Range(CURRENT_RUNNER[t].queue)

\* C18: in every reachable state, in the current Path and in every queued
\* Path, the entries with should_enter = true have pairwise distinct ranks,
\* which are exactly 0 .. n-1 for n such entries; sorting the active entries
\* by rank therefore has one possible result.
C18_Ranks ==
  \A t \in Threads : \A p \in HeldPaths(t) :
    /\ \A s, u \in Active(p) : p[s].index = p[u].index => s = u
    /\ {p[s].index : s \in Active(p)} = 0..(Cardinality(Active(p)) - 1)
    /\ Cardinality(SortedActive(p)) = 1

C18_Witness ==
  \E t \in Threads : \E p \in Range(CURRENT_RUNNER[t].queue) :
    /\ Cardinality(Active(p)) >= 2
    /\ DOMAIN p # Active(p)
    /\ \E s \in DOMAIN p : ~p[s].should_enter /\ p[s].index = 0

\* The lines of the sections of a tree-shaped body that enclose line n
RECURSIVE TreeAbove(_)
TreeAbove(n) ==
  IF n \div TreeBase = 0 THEN {} ELSE {n \div TreeBase} \cup TreeAbove(n \div TreeBase)

\* Section u encloses section s in body b
Encloses(b, u, s) ==
  CASE b.kind = "tree"    -> u.line \in TreeAbove(s.line)
    [] b.kind = "example" -> u \in {SecPush, SecInsert} /\ s \in {SecReverse, SecPop}
    [] OTHER              -> FALSE

\* Pass i of the run of thread t was finalized with success and discovered s
DiscoveredIn(t, i, s) ==
  /\ i <= Len(fin[t])
  /\ fin[t][i].kind = "success"
  /\ s \notin DOMAIN ran[t][i]
  /\ \E j \in 1..Len(asked[t][i]) : asked[t][i][j].sec = s

\* C19: the rank order of the active sections of a Path is their activation
\* order: the active section of rank r was first discovered in a pass whose
\* active sections were exactly the active sections of rank less than r.
\* So when a section is queried only inside an active enclosing section, the
\* failure report lists every enclosing section before the sections nested
\* in it, at any nesting depth.
C19_ActivationOrder ==
  \A t \in Threads :
    /\ \A p \in HeldPaths(t) \cup Range(ran[t]) : \A s \in Active(p) :
         \E i \in 1..Len(ran[t]) :
           /\ DiscoveredIn(t, i, s)
           /\ Active(ran[t][i]) = {u \in Active(p) : p[u].index < p[s].index}
           /\ \A x \in DOMAIN ran[t][i] : x \in DOMAIN p /\ p[x] = ran[t][i][x]
    /\ \A p \in HeldPaths(t) : \A s, u \in Active(p) :
         Encloses(body[t], u, s) => p[u].index < p[s].index
    /\ (pc[t] = "panicked" /\ out[t] # <<>>) =>
         LET buf == out[t][1] IN
         \A i, j \in 1..Len(buf) :
           Encloses(body[t], LineSection(buf[i]), LineSection(buf[j])) => i < j

C19_Witness ==
  \E t \in Threads :
    /\ pc[t] = "panicked"
    /\ body[t].kind = "tree"
    /\ out[t] # <<>>
    /\ Len(out[t][1]) >= 3
    /\ Encloses(body[t], LineSection(out[t][1][1]), LineSection(out[t][1][3]))
    /\ Encloses(body[t], LineSection(out[t][1][2]), LineSection(out[t][1][3]))

\* The sections queried during pass i of the run of thread t
AskedIn(t, i) == {asked[t][i][j].sec : j \in 1..Len(asked[t][i])}

\* C20 as stated: every enqueued Path contains only sections that were
\* queried during the pass whose success finalization produced it.
C20_OnlyQueried ==
  \A t \in Threads : \A i \in 1..Len(enq[t]) :
    DOMAIN enq[t][i] \subseteq AskedIn(t, enqPass[t][i])

\* C20: an enqueued Path contains exactly the sections of the Path of the
\* pass whose success finalization produced it and the sections that pass
\* queried for the first time.  Each of its sections was queried in that pass
\* or in an earlier pass of the run; a section recorded by an earlier pass
\* is kept with its entry even when the producing pass did not query it.
C20_ClonedPaths ==
  \A t \in Threads : \A i \in 1..Len(enq[t]) :
    LET k == enqPass[t][i]
        p == enq[t][i]
    IN  /\ k \in 1..Len(ran[t])
        /\ DOMAIN p = DOMAIN ran[t][k] \cup (AskedIn(t, k) \ DOMAIN ran[t][k])
        /\ \A s \in DOMAIN ran[t][k] : p[s] = ran[t][k][s]
        /\ \A s \in DOMAIN p : \E n \in 1..k : s \in AskedIn(t, n)

C20_Witness ==
  \E t \in Threads : \E i \in 1..Len(enq[t]) :
    /\ body[t].kind = "branch"
    /\ DOMAIN enq[t][i] = {SecA, SecB, SecC}
    /\ AskedIn(t, enqPass[t][i]) = {SecA, SecC}
    /\ enq[t][i][SecC].should_enter
    /\ ~enq[t][i][SecB].should_enter

====
